---- MODULE Spec2Model ----
(***************************************************************************)
(* Model of crossword/generator.py (class CrosswordGenerator): the grid    *)
(* construction engine -- seeding, intersection-driven growth, fill,       *)
(* triple-black repair and the final validation -- and of the handlers of   *)
(* crossword/gui.py (class CrosswordGUI) that run it, show, save and load   *)
(* its result.                                                             *)
(*                                                                         *)
(* A word text is a sequence of one-character strings.  A grid is a        *)
(* function from <<row, col>> (0-based, as in the code) to the cell's      *)
(* letter: " " is a Blank cell, "#" a Black cell.                          *)
(***************************************************************************)
EXTENDS Integers, Sequences, FiniteSets, TLC

\* ---------------------------------------------------------------- bounds
\* largest grid size N explored for the word lists
MaxSize == 6
\* longest prefix of a word list given to the constructor
MaxWords == 12

\* --------------------------------------------------- program constants
max_attempts == 150
\* smallest grid size the application asks for
MinSize == 5
MinWordLen == 2
MaxWordLen == 15
MaxFirstWordLen == 8
MaxPlacedTarget == 20
MinPlacements == 4

Blank == " "
Black == "#"

Min(a, b) == IF a < b THEN a ELSE b

\* ------------------------------------------------------------ characters
UpperOf == [c \in {"a", "b", "c", "f", "h"} |->
              CASE c = "a" -> "A" [] c = "b" -> "B" [] c = "c" -> "C"
                [] c = "f" -> "F" [] c = "h" -> "H"]

Alpha == {"A", "B", "C", "D", "E", "F", "G", "H", "J", "L", "O", "S", "X", "Y"}
           \cup DOMAIN UpperOf

\* str.upper(), character by character
Upper(t) == [i \in 1..Len(t) |-> IF t[i] \in DOMAIN UpperOf THEN UpperOf[t[i]] ELSE t[i]]

\* str.isalpha(): non-empty and every character alphabetic
IsAlpha(t) == Len(t) > 0 /\ \A i \in 1..Len(t) : t[i] \in Alpha

\* _is_valid_word
is_valid_word(t) == IsAlpha(t) /\ MinWordLen <= Len(t) /\ Len(t) <= MaxWordLen

\* Word(text, definitions)
Word(t, ds) == [text |-> t, definitions |-> ds]

RECURSIVE FilterValid_dedup(_)
\* mutant of FilterValid: an entry whose text was already kept is dropped
FilterValid_dedup(input) ==
    IF input = <<>> THEN <<>>
    ELSE LET rest == FilterValid_dedup(SubSeq(input, 1, Len(input) - 1))
             w == Word(Upper(input[Len(input)].word), input[Len(input)].definitions)
         IN  rest \o (IF is_valid_word(w.text) /\ \A k \in 1..Len(rest) : rest[k].text # w.text
                      THEN <<w>> ELSE <<>>)

RECURSIVE FilterValid(_)
\* the constructor's loop: upper-case every entry, keep the valid ones, in order
FilterValid(input) ==
    IF input = <<>> THEN <<>>
    ELSE LET w == Word(Upper(Head(input).word), Head(input).definitions)
         IN  (IF is_valid_word(w.text) THEN <<w>> ELSE <<>>) \o FilterValid(Tail(input))

RECURSIVE InsertByLen_unstable(_, _)
\* mutant of InsertByLen: w goes in front of the entries of its own length
InsertByLen_unstable(sorted, w) ==
    IF sorted = <<>> THEN <<w>>
    ELSE IF Len(Head(sorted).text) > Len(w.text)
         THEN <<Head(sorted)>> \o InsertByLen_unstable(Tail(sorted), w)
         ELSE <<w>> \o sorted

RECURSIVE InsertByLen(_, _)
\* insert w behind every entry that is at least as long (stable, descending)
InsertByLen(sorted, w) ==
    IF sorted = <<>> THEN <<w>>
    ELSE IF Len(Head(sorted).text) >= Len(w.text)
         THEN <<Head(sorted)>> \o InsertByLen(Tail(sorted), w)
         ELSE <<w>> \o sorted

RECURSIVE SortByLenDesc(_)
\* list.sort(key=len, reverse=True): stable, longest first
SortByLenDesc(ws) ==
    IF ws = <<>> THEN <<>>
    ELSE InsertByLen(SortByLenDesc(SubSeq(ws, 1, Len(ws) - 1)), ws[Len(ws)])

\* self.words after __init__
BuildWords(input) == SortByLenDesc(FilterValid(input))

\* ----------------------------------------------------------- grid basics
Cells(n) == (0..(n - 1)) \X (0..(n - 1))

EmptyGrid(n) == [p \in Cells(n) |-> Blank]

NoNumbers(n) == [p \in Cells(n) |-> 0]

IsLetter(ch) == ch # Blank /\ ch # Black

\* any(w.text == t for w in self.words)
InWords(ws, t) == \E i \in 1..Len(ws) : ws[i].text = t

\* word.index(letter), 0-based; the letter occurs in the word
IndexOf(t, letter) == (CHOOSE i \in 1..Len(t) :
                          t[i] = letter /\ \A j \in 1..(i - 1) : t[j] # letter) - 1

\* _is_valid_position
is_valid_position(n, row, col, t, is_horizontal) ==
    IF is_horizontal
    THEN 0 <= row /\ row < n /\ 0 <= col /\ col <= n - Len(t)
    ELSE 0 <= col /\ col < n /\ 0 <= row /\ row <= n - Len(t)

\* ------------------------------------------------- run reconstruction
RECURSIVE RunStartRow(_, _, _)
\* while start_row > 0 and grid[start_row-1][col] is a letter: start_row -= 1
RunStartRow(g, row, col) ==
    IF row > 0 /\ IsLetter(g[<<row - 1, col>>]) THEN RunStartRow(g, row - 1, col) ELSE row

RECURSIVE RunStartCol(_, _, _)
\* while start_col > 0 and grid[row][start_col-1] is a letter: start_col -= 1
RunStartCol(g, row, col) ==
    IF col > 0 /\ IsLetter(g[<<row, col - 1>>]) THEN RunStartCol(g, row, col - 1) ELSE col

RECURSIVE CollectDown(_, _, _, _, _, _)
\* the collecting loop of _get_vertical_word: it stops at the first cell that
\* is Blank or Black, the cell (row, col) itself included
CollectDown(g, n, cur, row, col, new_letter) ==
    IF cur < n /\ IsLetter(g[<<cur, col>>])
    THEN <<IF cur = row THEN new_letter ELSE g[<<cur, col>>]>>
            \o CollectDown(g, n, cur + 1, row, col, new_letter)
    ELSE <<>>

RECURSIVE CollectRight(_, _, _, _, _, _)
\* the collecting loop of _get_horizontal_word
CollectRight(g, n, cur, row, col, new_letter) ==
    IF cur < n /\ IsLetter(g[<<row, cur>>])
    THEN <<IF cur = col THEN new_letter ELSE g[<<row, cur>>]>>
            \o CollectRight(g, n, cur + 1, row, col, new_letter)
    ELSE <<>>

\* _get_vertical_word; <<>> stands for None
get_vertical_word(g, n, row, col, new_letter) ==
    CollectDown(g, n, RunStartRow(g, row, col), row, col, new_letter)

\* _get_horizontal_word; <<>> stands for None
get_horizontal_word(g, n, row, col, new_letter) ==
    CollectRight(g, n, RunStartCol(g, row, col), row, col, new_letter)

\* _get_word_at_position on a grid of letters; <<>> stands for None
get_word_at_position(g, n, row, col, is_horizontal) ==
    IF is_horizontal
    THEN CollectRight(g, n, RunStartCol(g, row, col), row, col, g[<<row, col>>])
    ELSE CollectDown(g, n, RunStartRow(g, row, col), row, col, g[<<row, col>>])

\* the i-th cell (0-based) of a span anchored at (row, col)
SpanCell(row, col, is_horizontal, i) ==
    IF is_horizontal THEN <<row, col + i>> ELSE <<row + i, col>>

\* _can_place_word_without_conflict: every span cell is Blank or Black and
\* each letter, written alone on a copy of the grid, forms only Lexicon runs
can_place_word_without_conflict(ws, g, n, t, row, col, is_horizontal) ==
    /\ is_valid_position(n, row, col, t, is_horizontal)
    /\ \A i \in 0..(Len(t) - 1) :
          LET p == SpanCell(row, col, is_horizontal, i)
              test_grid == [g EXCEPT ![p] = t[i + 1]]
              vert_word == get_word_at_position(test_grid, n, p[1], p[2], FALSE)
              horz_word == get_word_at_position(test_grid, n, p[1], p[2], TRUE)
          IN  /\ ~IsLetter(g[p])
              /\ (Len(vert_word) >= 2 => InWords(ws, vert_word))
              /\ (Len(horz_word) >= 2 => InWords(ws, horz_word))

\* ---------------------------------------------------------- black cells
\* _would_create_triple_black
would_create_triple_black(g, n, row, col) ==
    \/ col > 0 /\ col < n - 1 /\ g[<<row, col - 1>>] = Black /\ g[<<row, col + 1>>] = Black
    \/ col > 1 /\ g[<<row, col - 2>>] = Black /\ g[<<row, col - 1>>] = Black
    \/ col < n - 2 /\ g[<<row, col + 1>>] = Black /\ g[<<row, col + 2>>] = Black
    \/ row > 0 /\ row < n - 1 /\ g[<<row - 1, col>>] = Black /\ g[<<row + 1, col>>] = Black
    \/ row > 1 /\ g[<<row - 2, col>>] = Black /\ g[<<row - 1, col>>] = Black
    \/ row < n - 2 /\ g[<<row + 1, col>>] = Black /\ g[<<row + 2, col>>] = Black

Adjacent(p, q) ==
    \/ p[1] = q[1] /\ (p[2] = q[2] + 1 \/ q[2] = p[2] + 1)
    \/ p[2] = q[2] /\ (p[1] = q[1] + 1 \/ q[1] = p[1] + 1)

RECURSIVE Flood(_, _)
\* the cells of `cells` reachable from `visited` by 4-directional steps
Flood(cells, visited) ==
    LET more == {q \in cells \ visited : \E p \in visited : Adjacent(p, q)}
    IN  IF more = {} THEN visited ELSE Flood(cells, visited \cup more)

\* first cell of a non-empty set in row-major order
FirstCell(cells, n) ==
    CHOOSE p \in cells : \A q \in cells : p[1] * n + p[2] <= q[1] * n + q[2]

\* _can_add_black_cell: on a copy with (row, col) Black, the DFS from the
\* first letter cell reaches every letter cell (Blank cells are not counted)
can_add_black_cell(g, n, row, col) ==
    LET temp_grid == [g EXCEPT ![<<row, col>>] = Black]
        letters == {p \in Cells(n) : IsLetter(temp_grid[p])}
    IN  IF letters = {} THEN TRUE
        ELSE Cardinality(Flood(letters, {FirstCell(letters, n)})) = Cardinality(letters)

\* mutant of try_add_black_cell: the cell is made Black before the tests
try_add_black_cell_eager(g, n, row, col) ==
    [ok |-> /\ row > 0 /\ row < n - 1 /\ col > 0 /\ col < n - 1
            /\ ~would_create_triple_black(g, n, row, col)
            /\ can_add_black_cell(g, n, row, col),
     grid |-> [g EXCEPT ![<<row, col>>] = Black]]

\* _try_add_black_cell: [ok, grid]
try_add_black_cell(g, n, row, col) ==
    IF /\ row > 0 /\ row < n - 1 /\ col > 0 /\ col < n - 1
       /\ ~would_create_triple_black(g, n, row, col)
       /\ can_add_black_cell(g, n, row, col)
    THEN [ok |-> TRUE, grid |-> [g EXCEPT ![<<row, col>>] = Black]]
    ELSE [ok |-> FALSE, grid |-> g]

\* mutant of add_black_cells_around_word: only the cell before the word is
\* written
add_black_cells_around_word_before(g, n, row, col, word_length, is_horizontal) ==
    IF is_horizontal
    THEN IF col > 0 /\ ~(col > 1 /\ g[<<row, col - 2>>] = Black)
         THEN [g EXCEPT ![<<row, col - 1>>] = Black] ELSE g
    ELSE IF row > 0 /\ ~(row > 1 /\ g[<<row - 2, col>>] = Black)
         THEN [g EXCEPT ![<<row - 1, col>>] = Black] ELSE g

\* _add_black_cells_around_word
add_black_cells_around_word(g, n, row, col, word_length, is_horizontal) ==
    IF is_horizontal
    THEN LET g1 == IF col > 0 /\ ~(col > 1 /\ g[<<row, col - 2>>] = Black)
                   THEN [g EXCEPT ![<<row, col - 1>>] = Black] ELSE g
         IN  IF /\ col + word_length < n
                /\ ~(col + word_length < n - 1 /\ g1[<<row, col + word_length + 1>>] = Black)
             THEN [g1 EXCEPT ![<<row, col + word_length>>] = Black] ELSE g1
    ELSE LET g1 == IF row > 0 /\ ~(row > 1 /\ g[<<row - 2, col>>] = Black)
                   THEN [g EXCEPT ![<<row - 1, col>>] = Black] ELSE g
         IN  IF /\ row + word_length < n
                /\ ~(row + word_length < n - 1 /\ g1[<<row + word_length + 1, col>>] = Black)
             THEN [g1 EXCEPT ![<<row + word_length, col>>] = Black] ELSE g1

\* ------------------------------------------------ crossing verification
\* the cells of the proposed word at which _check_adjacent_words finds a
\* perpendicular neighbour holding a letter and a reconstructed run that is
\* not a Lexicon entry
OffendingCells(ws, g, n, t, row, col, is_horizontal) ==
    {i \in 0..(Len(t) - 1) :
        LET p == SpanCell(row, col, is_horizontal, i)
            r == p[1]
            c == p[2]
            cross == IF is_horizontal
                     THEN get_vertical_word(g, n, r, c, t[i + 1])
                     ELSE get_horizontal_word(g, n, r, c, t[i + 1])
            touched == IF is_horizontal
                       THEN \/ r > 0 /\ IsLetter(g[<<r - 1, c>>])
                            \/ r < n - 1 /\ IsLetter(g[<<r + 1, c>>])
                       ELSE \/ c > 0 /\ IsLetter(g[<<r, c - 1>>])
                            \/ c < n - 1 /\ IsLetter(g[<<r, c + 1>>])
        IN  touched /\ cross # <<>> /\ ~InWords(ws, cross)}

\* _check_adjacent_words: [ok, grid]; at the first offending cell the result
\* is that of _try_add_black_cell there, and the later cells are not looked at
check_adjacent_words(ws, g, n, t, row, col, is_horizontal) ==
    IF ~InWords(ws, t) THEN [ok |-> FALSE, grid |-> g]
    ELSE LET bad == OffendingCells(ws, g, n, t, row, col, is_horizontal)
         IN  IF bad = {} THEN [ok |-> TRUE, grid |-> g]
             ELSE LET i == CHOOSE k \in bad : \A m \in bad : k <= m
                      p == SpanCell(row, col, is_horizontal, i)
                  IN  try_add_black_cell(g, n, p[1], p[2])

\* ------------------------------------------------------------ placement
\* a generator's mutable state: [grid, number, word_positions, used_words]
GenState(g, num, wp, used) ==
    [grid |-> g, number |-> num, word_positions |-> wp, used_words |-> used]

\* the loop "for i, letter in enumerate(word)" of _place_word
WriteLetters(g, t, row, col, is_horizontal) ==
    [p \in DOMAIN g |->
        IF \E i \in 0..(Len(t) - 1) : SpanCell(row, col, is_horizontal, i) = p
        THEN t[(CHOOSE i \in 0..(Len(t) - 1) : SpanCell(row, col, is_horizontal, i) = p) + 1]
        ELSE g[p]]

\* mutant of _place_word: the anchor cell is numbered again by every word
\* anchored at it
place_word_renumber(ws, st, n, t, row, col, is_horizontal, definition) ==
    LET chk == check_adjacent_words(ws, st.grid, n, t, row, col, is_horizontal)
    IN  IF ~chk.ok THEN [ok |-> FALSE, st |-> [st EXCEPT !.grid = chk.grid]]
        ELSE LET wp == Append(st.word_positions,
                              [word |-> t, row |-> row, col |-> col,
                               is_horizontal |-> is_horizontal, definition |-> definition])
                 num == [st.number EXCEPT ![<<row, col>>] = Len(wp)]
                 g1 == WriteLetters(chk.grid, t, row, col, is_horizontal)
                 g2 == add_black_cells_around_word(g1, n, row, col, Len(t), is_horizontal)
             IN  [ok |-> TRUE, st |-> GenState(g2, num, wp, st.used_words \cup {t})]

\* _place_word: [ok, st]
place_word(ws, st, n, t, row, col, is_horizontal, definition) ==
    LET chk == check_adjacent_words(ws, st.grid, n, t, row, col, is_horizontal)
    IN  IF ~chk.ok THEN [ok |-> FALSE, st |-> [st EXCEPT !.grid = chk.grid]]
        ELSE LET wp == Append(st.word_positions,
                              [word |-> t, row |-> row, col |-> col,
                               is_horizontal |-> is_horizontal, definition |-> definition])
                 num == IF st.number[<<row, col>>] = 0
                        THEN [st.number EXCEPT ![<<row, col>>] = Len(wp)]
                        ELSE st.number
                 g1 == WriteLetters(chk.grid, t, row, col, is_horizontal)
                 g2 == add_black_cells_around_word(g1, n, row, col, Len(t), is_horizontal)
             IN  [ok |-> TRUE, st |-> GenState(g2, num, wp, st.used_words \cup {t})]

\* mutant of can_place_word: the cell before the anchor need not be Black
can_place_word_any_start(g, n, t, row, col, is_horizontal, letter) ==
    LET offset == IndexOf(t, letter)
        new_row == IF is_horizontal THEN row ELSE row - offset
        new_col == IF is_horizontal THEN col - offset ELSE col
        len == Len(t)
    IN  /\ is_valid_position(n, new_row, new_col, t, is_horizontal)
        /\ IF is_horizontal
           THEN /\ ~(new_col + len < n /\ IsLetter(g[<<new_row, new_col + len>>]))
                /\ \A i \in 0..(len - 1) :
                      /\ ~(new_row > 0 /\ g[<<new_row - 1, new_col + i>>] = Black)
                      /\ ~(new_row < n - 1 /\ g[<<new_row + 1, new_col + i>>] = Black)
           ELSE /\ ~(new_row + len < n /\ IsLetter(g[<<new_row + len, new_col>>]))
                /\ \A i \in 0..(len - 1) :
                      /\ ~(new_col > 0 /\ g[<<new_row + i, new_col - 1>>] = Black)
                      /\ ~(new_col < n - 1 /\ g[<<new_row + i, new_col + 1>>] = Black)
        /\ \A i \in 0..(len - 1) :
              g[SpanCell(new_row, new_col, is_horizontal, i)] \in {Blank, t[i + 1]}

\* mutant of can_place_word: Black cells beside the span are not looked at
can_place_word_any_side(g, n, t, row, col, is_horizontal, letter) ==
    LET offset == IndexOf(t, letter)
        new_row == IF is_horizontal THEN row ELSE row - offset
        new_col == IF is_horizontal THEN col - offset ELSE col
        len == Len(t)
    IN  /\ is_valid_position(n, new_row, new_col, t, is_horizontal)
        /\ IF is_horizontal
           THEN /\ ~(new_col > 0 /\ g[<<new_row, new_col - 1>>] # Black)
                /\ ~(new_col + len < n /\ IsLetter(g[<<new_row, new_col + len>>]))
           ELSE /\ ~(new_row > 0 /\ g[<<new_row - 1, new_col>>] # Black)
                /\ ~(new_row + len < n /\ IsLetter(g[<<new_row + len, new_col>>]))
        /\ \A i \in 0..(len - 1) :
              g[SpanCell(new_row, new_col, is_horizontal, i)] \in {Blank, t[i + 1]}

\* _can_place_word
can_place_word(g, n, t, row, col, is_horizontal, letter) ==
    LET offset == IndexOf(t, letter)
        new_row == IF is_horizontal THEN row ELSE row - offset
        new_col == IF is_horizontal THEN col - offset ELSE col
        len == Len(t)
    IN  /\ is_valid_position(n, new_row, new_col, t, is_horizontal)
        /\ IF is_horizontal
           THEN /\ ~(new_col > 0 /\ g[<<new_row, new_col - 1>>] # Black)
                /\ ~(new_col + len < n /\ IsLetter(g[<<new_row, new_col + len>>]))
                /\ \A i \in 0..(len - 1) :
                      /\ ~(new_row > 0 /\ g[<<new_row - 1, new_col + i>>] = Black)
                      /\ ~(new_row < n - 1 /\ g[<<new_row + 1, new_col + i>>] = Black)
           ELSE /\ ~(new_row > 0 /\ g[<<new_row - 1, new_col>>] # Black)
                /\ ~(new_row + len < n /\ IsLetter(g[<<new_row + len, new_col>>]))
                /\ \A i \in 0..(len - 1) :
                      /\ ~(new_col > 0 /\ g[<<new_row + i, new_col - 1>>] = Black)
                      /\ ~(new_col < n - 1 /\ g[<<new_row + i, new_col + 1>>] = Black)
        /\ \A i \in 0..(len - 1) :
              g[SpanCell(new_row, new_col, is_horizontal, i)] \in {Blank, t[i + 1]}

\* _can_start_vertical_word
can_start_vertical_word(g, n, row, col) ==
    /\ (row = 0 \/ ~IsLetter(g[<<row - 1, col>>]))
    /\ row < n - 1
    /\ g[<<row + 1, col>>] = Blank

\* _can_start_horizontal_word
can_start_horizontal_word(g, n, row, col) ==
    /\ (col = 0 \/ ~IsLetter(g[<<row, col - 1>>]))
    /\ col < n - 1
    /\ g[<<row, col + 1>>] = Blank

\* _find_intersections, as the set of its tuples (_add_word shuffles the list)
find_intersections(g, n) ==
    {x \in Cells(n) \X BOOLEAN :
        LET row == x[1][1]
            col == x[1][2]
        IN  /\ IsLetter(g[x[1]])
            /\ IF x[2] THEN can_start_horizontal_word(g, n, row, col)
                       ELSE can_start_vertical_word(g, n, row, col)}

\* possible_words of _add_word for one intersection, as indices into words
possible_words(ws, st, n, x) ==
    {k \in 1..Len(ws) :
        LET letter == st.grid[x[1]]
            t == ws[k].text
        IN  /\ \E i \in 1..Len(t) : t[i] = letter
            /\ t \notin st.used_words
            /\ can_place_word(st.grid, n, t, x[1][1], x[1][2], x[2], letter)}

\* the body of _add_word's loop for intersection x once word k and the
\* definition are drawn: [ok, st]
AddWordAt(ws, st, n, x, k, definition) ==
    LET t == ws[k].text
        offset == IndexOf(t, st.grid[x[1]])
        new_row == IF x[2] THEN x[1][1] ELSE x[1][1] - offset
        new_col == IF x[2] THEN x[1][2] - offset ELSE x[1][2]
    IN  IF is_valid_position(n, new_row, new_col, t, x[2])
        THEN place_word(ws, st, n, t, new_row, new_col, x[2], definition)
        ELSE [ok |-> FALSE, st |-> st]

Definitions(w) == {w.definitions[i] : i \in 1..Len(w.definitions)}

\* mutant of ShortWordFor: words already used are offered again
ShortWordFor_reuse(ws, st, n, row, col, is_horizontal) ==
    LET fits == {k \in 1..Len(ws) :
                    /\ Len(ws[k].text) = 2
                    /\ can_place_word_without_conflict(ws, st.grid, n, ws[k].text,
                                                       row, col, is_horizontal)}
    IN  IF fits = {} THEN 0 ELSE CHOOSE k \in fits : \A m \in fits : k <= m

\* the first word _try_place_short_word accepts (index into words), 0 if none
ShortWordFor(ws, st, n, row, col, is_horizontal) ==
    LET fits == {k \in 1..Len(ws) :
                    /\ Len(ws[k].text) = 2
                    /\ ws[k].text \notin st.used_words
                    /\ can_place_word_without_conflict(ws, st.grid, n, ws[k].text,
                                                       row, col, is_horizontal)}
    IN  IF fits = {} THEN 0 ELSE CHOOSE k \in fits : \A m \in fits : k <= m

\* _try_place_short_word with the definition drawn: [found, st]; the result
\* of _place_word is not looked at
try_place_short_word(ws, st, n, row, col, is_horizontal, k, definition) ==
    IF k = 0 THEN [found |-> FALSE, st |-> st]
    ELSE [found |-> TRUE,
          st |-> place_word(ws, st, n, ws[k].text, row, col, is_horizontal, definition).st]

\* the definitions random.choice can draw for word k (one dummy when k = 0)
DrawsFor(ws, k) == IF k = 0 THEN {"-"} ELSE Definitions(ws[k])

\* ----------------------------------------------------------- validation
\* the triple scan shared by _validate_grid and _fix_triple_black_cells
TripleAt(g, i, j, is_horizontal) ==
    IF is_horizontal
    THEN g[<<i, j>>] = Black /\ g[<<i, j + 1>>] = Black /\ g[<<i, j + 2>>] = Black
    ELSE g[<<j, i>>] = Black /\ g[<<j + 1, i>>] = Black /\ g[<<j + 2, i>>] = Black

\* mutant of check_all_letter_sequences: a Blank cell makes the check fail
check_all_letter_sequences_no_blank(ws, g, n) ==
    /\ \A p \in Cells(n) : g[p] # Blank
    /\ \A row \in 0..(n - 1) : \A col \in 0..(n - 1) :
          (IsLetter(g[<<row, col>>]) /\ (col = 0 \/ ~IsLetter(g[<<row, col - 1>>])))
             => LET word == CollectRight(g, n, col, row, col, g[<<row, col>>])
                IN  Len(word) >= 2 => InWords(ws, word)
    /\ \A col \in 0..(n - 1) : \A row \in 0..(n - 1) :
          (IsLetter(g[<<row, col>>]) /\ (row = 0 \/ ~IsLetter(g[<<row - 1, col>>])))
             => LET word == CollectDown(g, n, row, row, col, g[<<row, col>>])
                IN  Len(word) >= 2 => InWords(ws, word)

\* _check_all_letter_sequences: the word accumulated from each run start
check_all_letter_sequences(ws, g, n) ==
    /\ \A row \in 0..(n - 1) : \A col \in 0..(n - 1) :
          (IsLetter(g[<<row, col>>]) /\ (col = 0 \/ ~IsLetter(g[<<row, col - 1>>])))
             => LET word == CollectRight(g, n, col, row, col, g[<<row, col>>])
                IN  Len(word) >= 2 => InWords(ws, word)
    /\ \A col \in 0..(n - 1) : \A row \in 0..(n - 1) :
          (IsLetter(g[<<row, col>>]) /\ (row = 0 \/ ~IsLetter(g[<<row - 1, col>>])))
             => LET word == CollectDown(g, n, row, row, col, g[<<row, col>>])
                IN  Len(word) >= 2 => InWords(ws, word)

\* mutant of validate_grid: the letter sequences are not checked
validate_grid_triples_only(ws, g, n) ==
    \A i \in 0..(n - 1) : \A j \in 0..(n - 3) :
       ~TripleAt(g, i, j, TRUE) /\ ~TripleAt(g, i, j, FALSE)

\* mutant of validate_grid: the triple scan is left out
validate_grid_words_only(ws, g, n) == check_all_letter_sequences(ws, g, n)

\* _validate_grid
validate_grid(ws, g, n) ==
    /\ \A i \in 0..(n - 1) : \A j \in 0..(n - 3) :
          ~TripleAt(g, i, j, TRUE) /\ ~TripleAt(g, i, j, FALSE)
    /\ check_all_letter_sequences(ws, g, n)

\* ---------------------------------------------------------------- inputs
\* a raw entry {'word': ..., 'definitions': [...]}
Entry(t, ds) == [word |-> t, definitions |-> ds]

\* the text of an entry from a string of letters given one by one
W2(a, b) == <<a, b>>
W3(a, b, c) == <<a, b, c>>
W4(a, b, c, d) == <<a, b, c, d>>

\* a 5x5 word list; in the input the first entry is lower-case and has two
\* definitions, "F1" is not alphabetic, "J" is too short, "fh" repeats "FH"
ListA ==
    << Entry(W3("a", "b", "c"), <<"d1", "d2">>),
       Entry(W2("F", "1"), <<"d1">>),
       Entry(W3("D", "E", "B"), <<"d1">>),
       Entry(W3("F", "G", "D"), <<"d1">>),
       Entry(W2("F", "H"), <<"d1">>),
       Entry(W2("X", "Y"), <<"d1">>),
       Entry(W2("E", "X"), <<"d1">>),
       Entry(W2("X", "C"), <<"d1">>),
       Entry(W3("E", "X", "Y"), <<"d1">>),
       Entry(<<"J">>, <<"d1">>),
       Entry(W2("f", "h"), <<"d2">>) >>

\* a 6x6 word list
ListB ==
    << Entry(W4("A", "B", "C", "D"), <<"d1">>),
       Entry(W4("E", "F", "G", "B"), <<"d1">>),
       Entry(W3("H", "A", "E"), <<"d1">>),
       Entry(W4("B", "D", "C", "E"), <<"d1">>),
       Entry(W2("D", "G"), <<"d1">>),
       Entry(W2("C", "E"), <<"d1">>),
       Entry(W2("B", "F"), <<"d1">>),
       Entry(W2("H", "B"), <<"d1">>),
       Entry(W2("G", "D"), <<"d1">>),
       Entry(W2("C", "C"), <<"d1">>),
       Entry(W2("F", "C"), <<"d1">>),
       Entry(W4("G", "C", "G", "D"), <<"d1">>) >>

\* the single-entry Lexicon {AB}
ListAB == << Entry(W2("A", "B"), <<"due lettere">>) >>

\* the scenario Lexicon {CASA, ALA, SALA, LAGO}
ListCasa ==
    << Entry(W4("C", "A", "S", "A"), <<"abitazione">>),
       Entry(W3("A", "L", "A"), <<"parte del corpo">>),
       Entry(W4("S", "A", "L", "A"), <<"stanza">>),
       Entry(W4("L", "A", "G", "O"), <<"specchio d'acqua">>) >>

\* a Lexicon in which a 2-letter word fits beside a letter of a longer one
\* (AC before the B of AACB: CB is an entry)
ListBca ==
    << Entry(W4("B", "B", "A", "A"), <<"d1">>),
       Entry(W4("A", "A", "C", "B"), <<"d1">>),
       Entry(W2("C", "B"), <<"d1">>),
       Entry(W3("A", "A", "C"), <<"d1">>),
       Entry(W3("B", "C", "A"), <<"d1">>),
       Entry(W2("A", "C"), <<"d1">>),
       Entry(W4("B", "B", "A", "B"), <<"d1">>),
       Entry(W2("B", "C"), <<"d1">>) >>

WordLists == {ListA, ListB}

\* the first k entries of a list
Prefix(list, k) == SubSeq(list, 1, Min(k, Len(list)))

\* the (size, words) arguments the constructor is called with
Configs ==
    {[size |-> n, input |-> Prefix(list, k)] :
        n \in MinSize..MaxSize, list \in WordLists, k \in 0..MaxWords}
    \cup {[size |-> 7, input |-> ListCasa], [size |-> 5, input |-> ListAB],
          [size |-> 5, input |-> ListBca]}

\* ----------------------------------------------------------------- state
\* the fields of current_generator and the position of the running handler
VARIABLES size, words, grid, number, word_positions, used_words,
          attempts, pc, result, fill_pos, fix_pos, fixed
\* the application: the dictionary (self.words of the GUI), what the canvas
\* and the two clue tabs show, the saved file and the last message box; the
\* canvas and the file are <<>> while nothing is drawn or saved, and a
\* one-element sequence afterwards
VARIABLES input, canvas, horizontal_text, vertical_text, file, message

\* two attempts side by side: the values the module-level random generator
\* yields from its seed on, how many of them have been drawn, and the two
\* generator instances (empty while the application runs a single attempt)
VARIABLES stream, rng, run

gui_vars == <<input, canvas, horizontal_text, vertical_text, file, message>>

pair_vars == <<stream, rng, run>>

vars == <<size, words, grid, number, word_positions, used_words,
          attempts, pc, result, fill_pos, fix_pos, fixed, gui_vars, pair_vars>>

Cur == GenState(grid, number, word_positions, used_words)

\* assigns the generator's mutable fields from a GenState record
SetState(st) ==
    /\ grid' = st.grid
    /\ number' = st.number
    /\ word_positions' = st.word_positions
    /\ used_words' = st.used_words

\* the application has started and generate_crossword has built its generator
Init ==
    /\ \E cfg \in Configs :
          size = cfg.size /\ input = cfg.input /\ words = BuildWords(cfg.input)
    /\ canvas = <<>>
    /\ horizontal_text = <<>>
    /\ vertical_text = <<>>
    /\ file = <<>>
    /\ message = "none"
    /\ stream = <<>>
    /\ rng = 0
    /\ run = <<>>
    /\ grid = EmptyGrid(size)
    /\ number = NoNumbers(size)
    /\ word_positions = <<>>
    /\ used_words = {}
    /\ attempts = 0
    /\ pc = "seed"
    /\ result = "none"
    /\ fill_pos = 0
    /\ fix_pos = 0
    /\ fixed = FALSE

\* generate() returns v
Return(v) ==
    /\ result' = v
    /\ pc' = "done"

\* mutant of suitable_words: the first word may be as long as the grid is wide
suitable_words_grid_wide ==
    {k \in 1..Len(words) :
        /\ MinWordLen <= Len(words[k].text)
        /\ Len(words[k].text) <= Min(size, MaxFirstWordLen)
        /\ words[k].text \notin used_words}

\* mutant of suitable_words: the first word must be longer than 2 letters
suitable_words_strict_min ==
    {k \in 1..Len(words) :
        /\ MinWordLen < Len(words[k].text)
        /\ Len(words[k].text) <= Min(size - 2, MaxFirstWordLen)
        /\ words[k].text \notin used_words}

\* suitable_words of _place_first_word, as indices into words
suitable_words ==
    {k \in 1..Len(words) :
        /\ MinWordLen <= Len(words[k].text)
        /\ Len(words[k].text) <= Min(size - 2, MaxFirstWordLen)
        /\ words[k].text \notin used_words}

\* generate(), lines 54-55: _place_first_word finds no suitable word
PlaceFirstWordNone ==
    /\ pc = "seed"
    /\ suitable_words = {}
    /\ Return(FALSE)
    /\ UNCHANGED <<size, words, grid, number, word_positions, used_words,
                   attempts, fill_pos, fix_pos, fixed>>
    /\ UNCHANGED <<gui_vars, pair_vars>>

\* generate(), lines 54-58: _place_first_word draws a word and a definition
PlaceFirstWord ==
    /\ pc = "seed"
    /\ \E k \in suitable_words : \E d \in Definitions(words[k]) :
       \E r \in {place_word(words, Cur, size, words[k].text, size \div 2,
                            (size - Len(words[k].text)) \div 2, TRUE, d)} :
          /\ SetState(r.st)
          /\ IF r.ok THEN pc' = "grow" /\ result' = result
                     ELSE Return(FALSE)
    /\ attempts' = 0
    /\ UNCHANGED <<size, words, fill_pos, fix_pos, fixed>>
    /\ UNCHANGED <<gui_vars, pair_vars>>

\* mutant of AfterAttempt: fill and repair run whatever the placement count
AfterAttempt_any_count(a, wp) ==
    IF a < max_attempts /\ ~(Len(wp) >= Min(MaxPlacedTarget, Len(words) \div 2))
    THEN pc' = "grow" /\ result' = result
    ELSE pc' = "fill" /\ result' = result

\* mutant of AfterAttempt: the loop goes on until the placements exceed the
\* target
AfterAttempt_above_target(a, wp) ==
    IF a < max_attempts /\ ~(Len(wp) > Min(MaxPlacedTarget, Len(words) \div 2))
    THEN pc' = "grow" /\ result' = result
    ELSE IF Len(wp) >= MinPlacements
         THEN pc' = "fill" /\ result' = result
         ELSE Return(FALSE)

\* mutant of AfterAttempt: the loop goes on until as many words are placed
\* as the Lexicon has entries
AfterAttempt_whole_lexicon(a, wp) ==
    IF a < max_attempts /\ ~(Len(wp) >= Min(MaxPlacedTarget, Len(words)))
    THEN pc' = "grow" /\ result' = result
    ELSE IF Len(wp) >= MinPlacements
         THEN pc' = "fill" /\ result' = result
         ELSE Return(FALSE)

\* the end of one iteration of the growth loop (lines 60-74) with the new
\* failure count a and the new placement list wp
AfterAttempt(a, wp) ==
    IF a < max_attempts /\ ~(Len(wp) >= Min(MaxPlacedTarget, Len(words) \div 2))
    THEN pc' = "grow" /\ result' = result
    ELSE IF Len(wp) >= MinPlacements
         THEN pc' = "fill" /\ result' = result
         ELSE Return(FALSE)

\* one iteration of the growth loop in which _add_word returns True: some
\* shuffle puts intersection x first among those that succeed, and word k and
\* definition d are drawn for it
AddWordPlaced ==
    /\ pc = "grow"
    /\ \E x \in find_intersections(grid, size) :
       \E k \in possible_words(words, Cur, size, x) :
       \E d \in Definitions(words[k]) :
       \E r \in {AddWordAt(words, Cur, size, x, k, d)} :
          /\ r.ok
          /\ SetState(r.st)
          /\ attempts' = 0
          /\ AfterAttempt(0, r.st.word_positions)
    /\ UNCHANGED <<size, words, fill_pos, fix_pos, fixed>>
    /\ UNCHANGED <<gui_vars, pair_vars>>

\* one iteration of the growth loop in which _add_word returns False: every
\* intersection has no possible word or draws a word whose _place_word fails
\* (a failing _place_word leaves the grid as it was)
AddWordFailed ==
    /\ pc = "grow"
    /\ \A x \in find_intersections(grid, size) :
          \/ possible_words(words, Cur, size, x) = {}
          \/ \E k \in possible_words(words, Cur, size, x) :
                ~AddWordAt(words, Cur, size, x, k, words[k].definitions[1]).ok
    /\ attempts' = attempts + 1
    /\ AfterAttempt(attempts + 1, word_positions)
    /\ UNCHANGED <<size, words, grid, number, word_positions, used_words,
                   fill_pos, fix_pos, fixed>>
    /\ UNCHANGED <<gui_vars, pair_vars>>

\* one iteration of _fill_empty_spaces, at cell fill_pos in row-major order
FillCell ==
    /\ pc = "fill"
    /\ LET row == fill_pos \div size
           col == fill_pos % size
       IN  IF grid[<<row, col>>] = Blank
           THEN \E k \in {ShortWordFor(words, Cur, size, row, col, TRUE)} :
                \E d \in DrawsFor(words, k) :
                \E r \in {try_place_short_word(words, Cur, size, row, col, TRUE, k, d)} :
                   IF r.found THEN SetState(r.st)
                   ELSE /\ grid' = IF would_create_triple_black(grid, size, row, col)
                                   THEN grid
                                   ELSE [grid EXCEPT ![<<row, col>>] = Black]
                        /\ UNCHANGED <<number, word_positions, used_words>>
           ELSE UNCHANGED <<grid, number, word_positions, used_words>>
    /\ IF fill_pos + 1 < size * size
       THEN fill_pos' = fill_pos + 1 /\ pc' = "fill" /\ fixed' = fixed
       ELSE fill_pos' = fill_pos /\ pc' = "fix" /\ fixed' = FALSE
    /\ fix_pos' = 0
    /\ UNCHANGED <<size, words, attempts, result>>
    /\ UNCHANGED <<gui_vars, pair_vars>>

\* one iteration of the inner loops of _fix_triple_black_cells, at
\* i = fix_pos div (size-2), j = fix_pos mod (size-2): the horizontal check,
\* then the vertical one; after the last pair the while loop runs again when
\* fixed is set and generate() goes on to _validate_grid when it is not
FixStep ==
    /\ pc = "fix"
    /\ LET i == fix_pos \div (size - 2)
           j == fix_pos % (size - 2)
       IN  \E kh \in {IF TripleAt(grid, i, j, TRUE)
                       THEN ShortWordFor(words, Cur, size, i, j + 1, TRUE) ELSE 0} :
           \E dh \in DrawsFor(words, kh) :
           \E rh \in {try_place_short_word(words, Cur, size, i, j + 1, TRUE, kh, dh)} :
           \E kv \in {IF TripleAt(rh.st.grid, i, j, FALSE)
                       THEN ShortWordFor(words, rh.st, size, j + 1, i, FALSE) ELSE 0} :
           \E dv \in DrawsFor(words, kv) :
           \E rv \in {try_place_short_word(words, rh.st, size, j + 1, i, FALSE, kv, dv)} :
           \E f \in {fixed \/ rh.found \/ rv.found} :
              /\ SetState(rv.st)
              /\ IF fix_pos + 1 < size * (size - 2)
                 THEN fix_pos' = fix_pos + 1 /\ fixed' = f /\ pc' = "fix"
                 ELSE /\ fix_pos' = 0
                      /\ fixed' = FALSE
                      /\ pc' = IF f THEN "fix" ELSE "validate"
    /\ UNCHANGED <<size, words, attempts, result, fill_pos>>
    /\ UNCHANGED <<gui_vars, pair_vars>>

\* generate(), line 72: return self._validate_grid()
Validate ==
    /\ pc = "validate"
    /\ Return(validate_grid(words, grid, size))
    /\ UNCHANGED <<size, words, grid, number, word_positions, used_words,
                   attempts, fill_pos, fix_pos, fixed>>
    /\ UNCHANGED <<gui_vars, pair_vars>>

\* ------------------------------------------------------- the application
RECURSIVE InsertByNumber(_, _, _)
\* insert placement w behind every entry whose key is not larger
InsertByNumber(sorted, w, num) ==
    IF sorted = <<>> THEN <<w>>
    ELSE IF num[<<Head(sorted).row, Head(sorted).col>>] <= num[<<w.row, w.col>>]
         THEN <<Head(sorted)>> \o InsertByNumber(Tail(sorted), w, num)
         ELSE <<w>> \o sorted

RECURSIVE SortByNumber(_, _)
\* sorted(self.word_positions, key = number of the anchor cell): stable
SortByNumber(wp, num) ==
    IF wp = <<>> THEN <<>>
    ELSE InsertByNumber(SortByNumber(SubSeq(wp, 1, Len(wp) - 1), num), wp[Len(wp)], num)

\* the line f"{number}. {definition}"; number 0 stands for None
ClueLine(w, num) == [number |-> num[<<w.row, w.col>>], definition |-> w.definition]

RECURSIVE ClueLines(_, _, _)
\* the lines of the placements of one orientation, in the order of the list
ClueLines(wp, num, is_horizontal) ==
    IF wp = <<>> THEN <<>>
    ELSE (IF Head(wp).is_horizontal = is_horizontal
          THEN <<ClueLine(Head(wp), num)>> ELSE <<>>)
         \o ClueLines(Tail(wp), num, is_horizontal)

\* get_definitions: [raised, horizontal, vertical]; sorted() raises TypeError
\* when it has to compare a key that is None
get_definitions(wp, num) ==
    IF Len(wp) >= 2 /\ \E i \in 1..Len(wp) : num[<<wp[i].row, wp[i].col>>] = 0
    THEN [raised |-> TRUE, horizontal |-> <<>>, vertical |-> <<>>]
    ELSE LET sorted == SortByNumber(wp, num)
         IN  [raised |-> FALSE,
              horizontal |-> ClueLines(sorted, num, TRUE),
              vertical |-> ClueLines(sorted, num, FALSE)]

\* draw_grid: per cell the colour and letter (both given by the cell's letter)
\* and the number text
draw_grid(n, g, num) == [size |-> n, grid |-> g, number |-> num]

\* save_data of save_crossword (date_created, a time stamp, is left out)
save_data == [size |-> size, grid |-> grid, word_positions |-> word_positions]

\* generate_crossword, lines 106-110, once generate() has returned
GenerateShow ==
    /\ pc = "done"
    /\ IF result = TRUE
       THEN \E r \in {get_definitions(word_positions, number)} :
               /\ canvas' = <<draw_grid(size, grid, number)>>
               /\ horizontal_text' = r.horizontal
               /\ vertical_text' = r.vertical
               /\ message' = message
       ELSE /\ message' = "Impossibile generare il cruciverba!"
            /\ UNCHANGED <<canvas, horizontal_text, vertical_text>>
    /\ pc' = "idle"
    /\ UNCHANGED <<size, words, grid, number, word_positions, used_words,
                   attempts, result, fill_pos, fix_pos, fixed, input, file>>
    /\ UNCHANGED pair_vars

\* save_crossword with a file name chosen: current_generator is pickled
SaveCrossword ==
    /\ pc = "idle"
    /\ file' = <<save_data>>
    /\ message' = "Cruciverba salvato correttamente!"
    /\ UNCHANGED <<size, words, grid, number, word_positions, used_words,
                   attempts, pc, result, fill_pos, fix_pos, fixed,
                   input, canvas, horizontal_text, vertical_text>>
    /\ UNCHANGED pair_vars

\* load_crossword with the saved file chosen: a new generator is built, the
\* letters and the placements are restored, the grid is drawn and the clue
\* tabs are cleared and filled again; an exception ends the handler with an
\* error box
LoadCrossword ==
    /\ pc = "idle"
    /\ file # <<>>
    /\ size' = file[1].size
    /\ words' = BuildWords(input)
    /\ grid' = file[1].grid
    /\ number' = NoNumbers(file[1].size)
    /\ word_positions' = file[1].word_positions
    /\ used_words' = {}
    /\ canvas' = <<draw_grid(file[1].size, file[1].grid, NoNumbers(file[1].size))>>
    /\ \E r \in {get_definitions(file[1].word_positions, NoNumbers(file[1].size))} :
          /\ horizontal_text' = r.horizontal
          /\ vertical_text' = r.vertical
          /\ message' = IF r.raised THEN "Errore nel caricamento"
                                   ELSE "Cruciverba caricato!"
    /\ UNCHANGED <<attempts, pc, result, fill_pos, fix_pos, fixed, input, file>>
    /\ UNCHANGED pair_vars

Next ==
    \/ PlaceFirstWordNone
    \/ PlaceFirstWord
    \/ AddWordPlaced
    \/ AddWordFailed
    \/ FillCell
    \/ FixStep
    \/ Validate
    \/ GenerateShow
    \/ SaveCrossword
    \/ LoadCrossword

Spec == Init /\ [][Next]_vars

\* generate() once its growth loop has ended: the repair loop and the final
\* validation keep stepping, as the statements of a running call do
FairSpec == Spec /\ WF_vars(FixStep) /\ WF_vars(Validate)

\* ------------------------------------------------- two attempts at once
\* number of values the random generator yields in the runs explored
StreamLen == 4
\* the values are taken from 0..(DrawRange - 1)
DrawRange == 3

\* random.choice(seq) when the generator yields value v
Choice(seq, v) == seq[(v % Len(seq)) + 1]

\* mutant of SuitableSeq: the used-word set is one set shared by all instances
SuitableSeq_shared(ws, n, used) ==
    LET all_used == UNION {run[b].st.used_words : b \in DOMAIN run}
        ok(w) == /\ MinWordLen <= Len(w.text)
                 /\ Len(w.text) <= Min(n - 2, MaxFirstWordLen)
                 /\ w.text \notin all_used
    IN  SelectSeq(ws, ok)

\* suitable_words of _place_first_word, as the list random.choice draws from
SuitableSeq(ws, n, used) ==
    LET ok(w) == /\ MinWordLen <= Len(w.text)
                 /\ Len(w.text) <= Min(n - 2, MaxFirstWordLen)
                 /\ w.text \notin used
    IN  SelectSeq(ws, ok)

\* a generator instance right after __init__, before generate() is called
NewRun(n, list) ==
    [size |-> n, words |-> BuildWords(list),
     st |-> GenState(EmptyGrid(n), NoNumbers(n), <<>>, {}),
     pc |-> "seed", word |-> Word(<<>>, <<>>), draws |-> <<>>]

\* two instances are built, the random generator is seeded
PairInit ==
    /\ stream \in [1..StreamLen -> 0..(DrawRange - 1)]
    /\ rng = 0
    /\ \E n1 \in MinSize..MaxSize : \E n2 \in MinSize..MaxSize :
          run = <<NewRun(n1, ListA), NewRun(n2, ListA)>>
    /\ size = MinSize
    /\ words = <<>>
    /\ grid = EmptyGrid(MinSize)
    /\ number = NoNumbers(MinSize)
    /\ word_positions = <<>>
    /\ used_words = {}
    /\ attempts = 0
    /\ pc = "pair"
    /\ result = "none"
    /\ fill_pos = 0
    /\ fix_pos = 0
    /\ fixed = FALSE
    /\ input = <<>>
    /\ canvas = <<>>
    /\ horizontal_text = <<>>
    /\ vertical_text = <<>>
    /\ file = <<>>
    /\ message = "none"

\* _place_first_word of instance a, line 89: word = random.choice(suitable_words)
ChooseWord(a) ==
    /\ run[a].pc = "seed"
    /\ rng < Len(stream)
    /\ \E suitable \in {SuitableSeq(run[a].words, run[a].size, run[a].st.used_words)} :
          IF suitable = <<>>
          THEN run' = [run EXCEPT ![a].pc = "done"] /\ rng' = rng
          ELSE /\ run' = [run EXCEPT ![a].pc = "define",
                                     ![a].word = Choice(suitable, stream[rng + 1]),
                                     ![a].draws = Append(@, stream[rng + 1])]
               /\ rng' = rng + 1
    /\ UNCHANGED <<size, words, grid, number, word_positions, used_words,
                   attempts, pc, result, fill_pos, fix_pos, fixed, gui_vars, stream>>

\* _place_first_word of instance a, lines 90-94: the definition is drawn and
\* the word is placed in the middle row
ChooseDefinition(a) ==
    /\ run[a].pc = "define"
    /\ rng < Len(stream)
    /\ LET r == run[a]
           t == r.word.text
       IN  \E p \in {place_word(r.words, r.st, r.size, t, r.size \div 2,
                                 (r.size - Len(t)) \div 2, TRUE,
                                 Choice(r.word.definitions, stream[rng + 1]))} :
              run' = [run EXCEPT ![a].pc = IF p.ok THEN "seeded" ELSE "done",
                                 ![a].st = p.st,
                                 ![a].draws = Append(@, stream[rng + 1])]
    /\ rng' = rng + 1
    /\ UNCHANGED <<size, words, grid, number, word_positions, used_words,
                   attempts, pc, result, fill_pos, fix_pos, fixed, gui_vars, stream>>

PairNext == \E a \in 1..2 : ChooseWord(a) \/ ChooseDefinition(a)

\* two attempts whose seeding steps interleave in any order
PairSpec == PairInit /\ [][PairNext]_vars

\* ================================================================ claims
Accepted == pc = "done" /\ result = TRUE

Rows == 0..(size - 1)

\* the letters of row `row` from column a to column b
RowText(row, a, b) == [i \in 1..(b - a + 1) |-> grid[<<row, a + i - 1>>]]

\* the letters of column `col` from row a to row b
ColText(col, a, b) == [i \in 1..(b - a + 1) |-> grid[<<a + i - 1, col>>]]

\* columns a..b of row `row` are a maximal run of letter cells
MaximalRowRun(row, a, b) ==
    /\ \A c \in a..b : IsLetter(grid[<<row, c>>])
    /\ (a = 0 \/ ~IsLetter(grid[<<row, a - 1>>]))
    /\ (b = size - 1 \/ ~IsLetter(grid[<<row, b + 1>>]))

\* rows a..b of column `col` are a maximal run of letter cells
MaximalColRun(col, a, b) ==
    /\ \A r \in a..b : IsLetter(grid[<<r, col>>])
    /\ (a = 0 \/ ~IsLetter(grid[<<a - 1, col>>]))
    /\ (b = size - 1 \/ ~IsLetter(grid[<<b + 1, col>>]))

AllRunsAreWords ==
    \A x \in Rows : \A a \in Rows : \A b \in Rows :
       a < b =>
          /\ MaximalRowRun(x, a, b) => InWords(words, RowText(x, a, b))
          /\ MaximalColRun(x, a, b) => InWords(words, ColText(x, a, b))

NoThreeBlack ==
    \A x \in Rows : \A a \in Rows :
       a + 2 <= size - 1 =>
          /\ ~(\A c \in a..(a + 2) : grid[<<x, c>>] = Black)
          /\ ~(\A r \in a..(a + 2) : grid[<<r, x>>] = Black)

\* C1: whenever generate() returns True, every maximal run of at least two
\* letter cells in a row or a column of the final grid is the text of a
\* Lexicon entry.
C1_Conformance == Accepted => AllRunsAreWords

\* an accepted grid on which a row run and a column run cross
C1_Witness ==
    /\ Accepted
    /\ \E x \in Rows : \E a \in Rows : \E b \in Rows : a < b /\ MaximalRowRun(x, a, b)
    /\ \E x \in Rows : \E a \in Rows : \E b \in Rows : a < b /\ MaximalColRun(x, a, b)

\* C2: whenever generate() returns True, no row and no column of the final
\* grid holds three consecutive Black cells.
C2_NoTripleBlack == Accepted => NoThreeBlack

\* an accepted grid that holds two consecutive Black cells
C2_Witness ==
    /\ Accepted
    /\ \E x \in Rows : \E a \in Rows :
          /\ a + 1 <= size - 1
          /\ \/ grid[<<x, a>>] = Black /\ grid[<<x, a + 1>>] = Black
             \/ grid[<<a, x>>] = Black /\ grid[<<a + 1, x>>] = Black

NonBlack == {p \in Cells(size) : grid[p] # Black}

\* C3: whenever generate() returns True, a flood-fill started from any
\* non-Black cell of the final grid reaches every non-Black cell.
C3_Connected ==
    Accepted => \A p \in NonBlack : Flood(NonBlack, {p}) = NonBlack

\* C4: every call of generate() terminates, returning True or False; in
\* particular a call that has entered the triple-black repair loop leaves it
\* and returns.
C4_Terminates == (pc = "fix") ~> (pc = "done")

NoDuplicateWord ==
    \A i \in 1..Len(word_positions) : \A j \in 1..Len(word_positions) :
       i # j => word_positions[i].word # word_positions[j].word

ExtendedAtEnd ==
    /\ Len(word_positions') >= Len(word_positions)
    /\ SubSeq(word_positions', 1, Len(word_positions)) = word_positions

\* C5: in every state of a generation attempt the Placement list holds no
\* two entries with the same word text, and every step leaves the entries it
\* already holds in place, adding new ones only at the end.
C5_AppendOnlyNoReuse == [](NoDuplicateWord) /\ [][ExtendedAtEnd]_vars

\* the repair phase is reached with a word that the fill phase has added
C5_Witness == pc = "fix" /\ Len(word_positions) >= 6

\* the cell before the anchor of placement w in its orientation
BeforeAnchor(w) == IF w.is_horizontal THEN <<w.row, w.col - 1>> ELSE <<w.row - 1, w.col>>

\* C6: whenever generate() returns True, the cell immediately before the
\* anchor of every recorded Placement, in its orientation, is Black or lies
\* outside the grid.
C6_AnchorBordered ==
    Accepted =>
       \A i \in 1..Len(word_positions) :
          LET p == BeforeAnchor(word_positions[i])
          IN  p \in Cells(size) => grid[p] = Black

\* C7: whenever generate() returns True, the Placement list holds at least
\* 4 placements.
C7_MinimumDensity == Accepted => Len(word_positions) >= 4

\* an accepted grid
C7_Witness == Accepted /\ Len(word_positions) > 0

\* C8 as stated: whenever generate() returns True, no cell of the final grid
\* is Blank.
C8_NoBlankAccepted == Accepted => \A p \in Cells(size) : grid[p] # Blank

\* C8 as amended: a Blank cell does not make the final validation fail; once
\* fill and repair have run, generate() returns True exactly when the grid
\* has no three consecutive Black cells and every maximal letter run of
\* length at least 2 is a Lexicon entry, a Blank cell ending a run as a Black
\* one does.
C8_BlankIsSeparator ==
    (pc = "done" /\ Len(word_positions) >= MinPlacements)
       => (result = (NoThreeBlack /\ AllRunsAreWords))

\* an accepted grid that still holds a Blank cell
C8_Witness == Accepted /\ \E p \in Cells(size) : grid[p] = Blank

\* the run of generate() on the scenario Lexicon with N = 7 has ended
CasaDone == size = 7 /\ words = BuildWords(ListCasa) /\ pc = "done"

\* C10 as stated: with Lexicon {CASA, ALA, SALA, LAGO} and N = 7, generate()
\* seeds with a word of length <= 5, crosses at least one more word, ends
\* with at least 4 placements and returns True.
C10_ScenarioAccepted ==
    CasaDone =>
       /\ Len(word_positions) >= 4
       /\ Len(word_positions[1].word) <= 5
       /\ result = TRUE

\* C10 as amended: with Lexicon {CASA, ALA, SALA, LAGO} and N = 7, generate()
\* seeds with a horizontal word of length <= 5 and crosses no further word;
\* it ends with exactly 1 placement and returns False.
C10_ScenarioRejected ==
    CasaDone =>
       /\ Len(word_positions) = 1
       /\ Len(word_positions[1].word) <= 5
       /\ word_positions[1].is_horizontal
       /\ result = FALSE

\* the scenario run has ended after its growth loop used up its attempts
C10_Witness == CasaDone /\ attempts = max_attempts

\* no Lexicon entry has a length in [2, min(N-2, 8)]
NoSeedLength ==
    \A k \in 1..Len(words) :
       ~(2 <= Len(words[k].text) /\ Len(words[k].text) <= Min(size - 2, 8))

\* C11: if no Lexicon entry has a length in [2, min(N-2, 8)], generate()
\* returns False at its first step, and afterwards every cell is still Blank
\* and the Placement list and the used-word set are still empty.
C11_NoSeedWord ==
    (NoSeedLength /\ pc # "seed") =>
       /\ pc \in {"done", "idle"}
       /\ result = FALSE
       /\ attempts = 0
       /\ \A p \in Cells(size) : grid[p] = Blank
       /\ word_positions = <<>>
       /\ used_words = {}

\* generate() has returned on a non-empty Lexicon without a seed word
C11_Witness == NoSeedLength /\ pc = "done" /\ words # <<>>

\* the run on the single-entry Lexicon {AB} with N = 5
AbRun == size = 5 /\ input = ListAB

\* C12: with the single entry AB and N = 5, seeding places AB, growth adds
\* no word, and generate() returns False with exactly one placement.
C12_SingleEntry ==
    AbRun =>
       /\ pc \in {"seed", "grow", "done", "idle"}
       /\ pc # "seed" => /\ Len(word_positions) = 1
                         /\ word_positions[1].word = <<"A", "B">>
       /\ pc \in {"done", "idle"} => result = FALSE

\* the run on {AB} has returned after one failed growth attempt
C12_Witness == AbRun /\ pc = "done" /\ attempts = 1

\* the input entries whose upper-cased text is alphabetic, of length 2 to 15
ValidEntries ==
    {i \in 1..Len(input) :
        LET t == Upper(input[i].word)
        IN  IsAlpha(t) /\ 2 <= Len(t) /\ Len(t) <= 15}

\* the position of valid input entry i among the valid entries ordered by
\* decreasing length, entries of equal length in input order
Rank(i) ==
    1 + Cardinality({m \in ValidEntries :
                        \/ Len(input[m].word) > Len(input[i].word)
                        \/ Len(input[m].word) = Len(input[i].word) /\ m < i})

\* C13: the Lexicon holds exactly the input entries whose upper-cased text
\* is alphabetic and of length 2 to 15, upper-cased, ordered by
\* non-increasing length, entries of equal length in input order.
C13_LexiconBuilt ==
    /\ Len(words) = Cardinality(ValidEntries)
    /\ \A i \in ValidEntries :
          words[Rank(i)] = [text |-> Upper(input[i].word),
                            definitions |-> input[i].definitions]

\* the input has an entry that is dropped, one that is upper-cased and two
\* valid entries that change places
C13_Witness ==
    /\ Len(words) < Len(input)
    /\ \E i \in ValidEntries : Upper(input[i].word) # input[i].word
    /\ \E i \in ValidEntries : \E j \in ValidEntries :
          i < j /\ Len(input[i].word) < Len(input[j].word)

\* C14 as stated: no two Lexicon entries have the same text.
C14_Deduplicated ==
    \A i \in 1..Len(words) : \A j \in 1..Len(words) :
       i # j => words[i].text # words[j].text

\* C14 as amended: the constructor does not deduplicate; the Lexicon holds
\* one entry for every valid input entry, so a text occurs in it as many
\* times as it occurs, upper-cased, among the valid input entries.
C14_KeepsDuplicates ==
    \A i \in ValidEntries :
       Cardinality({k \in 1..Len(words) : words[k].text = Upper(input[i].word)})
          = Cardinality({m \in ValidEntries : Upper(input[m].word) = Upper(input[i].word)})

\* a Lexicon with two entries of the same text
C14_Witness ==
    \E i \in 1..Len(words) : \E j \in 1..Len(words) :
       i # j /\ words[i].text = words[j].text

\* the anchor cell of a placement
Anchor(w) == <<w.row, w.col>>

\* every numbered cell is the anchor of a recorded placement
NumberedAreAnchors ==
    \A p \in Cells(size) :
       number[p] # 0 => \E i \in 1..Len(word_positions) : Anchor(word_positions[i]) = p

\* a step of generate() keeps the numbers that are set, and numbers a cell
\* only with the index of a placement it appends, anchored at that cell
NumberKept ==
    pc' # "idle" =>
       \A p \in Cells(size) :
          /\ number[p] # 0 => number'[p] = number[p]
          /\ (number[p] = 0 /\ number'[p] # 0) =>
                /\ number'[p] \in (Len(word_positions) + 1)..Len(word_positions')
                /\ Anchor(word_positions'[number'[p]]) = p

\* C15: a cell's clue number is assigned at most once -- no later insertion
\* changes it, not even a second word anchored at the cell -- and a cell
\* receives a number only when a Placement is anchored at it.
C15_NumberAssignedOnce == [](NumberedAreAnchors) /\ [][NumberKept]_vars

\* two placements are anchored at one cell, which keeps the first one's number
C15_Witness ==
    \E i \in 1..Len(word_positions) : \E j \in 1..Len(word_positions) :
       /\ i < j
       /\ Anchor(word_positions[i]) = Anchor(word_positions[j])
       /\ number[Anchor(word_positions[i])] = i

\* the placements of one orientation
PlacementsOf(is_horizontal) ==
    {i \in 1..Len(word_positions) : word_positions[i].is_horizontal = is_horizontal}

\* list holds, for every placement of the orientation, one line with the
\* number of its anchor cell and its definition, and nothing else, in
\* non-decreasing order of number
IsClueList(list, is_horizontal) ==
    /\ Len(list) = Cardinality(PlacementsOf(is_horizontal))
    /\ \A i \in PlacementsOf(is_horizontal) :
          LET line == [number |-> number[Anchor(word_positions[i])],
                       definition |-> word_positions[i].definition]
          IN  Cardinality({k \in 1..Len(list) : list[k] = line})
                 = Cardinality({m \in PlacementsOf(is_horizontal) :
                                   /\ number[Anchor(word_positions[m])] = line.number
                                   /\ word_positions[m].definition = line.definition})
    /\ \A k \in 1..(Len(list) - 1) : list[k].number <= list[k + 1].number

\* C16: get_definitions() returns every recorded Placement exactly once, the
\* horizontal ones in the first list and the vertical ones in the second,
\* each labelled with the clue number of its anchor cell, each list in
\* non-decreasing order of clue number; the clue tabs show its two lists
\* whenever the grid has been drawn.
C16_ClueLists ==
    (pc = "idle" /\ canvas # <<>>) =>
       /\ IsClueList(horizontal_text, TRUE)
       /\ IsClueList(vertical_text, FALSE)

\* C17: after a generate action whose generate() returned False, no later
\* action saves, draws or lists the rejected attempt.
C17_RejectedDiscarded ==
    (pc = "idle" /\ result = FALSE) =>
       /\ file = <<>>
       /\ canvas = <<>>
       /\ horizontal_text = <<>>
       /\ vertical_text = <<>>

\* the message boxes that end load_crossword
LoadMessages == {"Cruciverba caricato!", "Errore nel caricamento"}

\* a load_crossword step gives back the grid, the clue numbers and the
\* placements that were saved, and the clue lists derived from them
LoadRestores ==
    message' \in LoadMessages =>
       /\ grid' = grid
       /\ number' = number
       /\ word_positions' = word_positions
       /\ get_definitions(word_positions', number') = get_definitions(word_positions, number)

\* C19: saving a crossword and loading it back reconstructs the same Grid
\* and Placement list: every cell has the same state and the same clue
\* number, the placements are equal and so are the derived clue lists.
C19_SaveLoadRoundTrip == [][LoadRestores]_vars

\* the non-Black cells of grid g form one region
OneRegion(g) ==
    LET open == {p \in Cells(size) : g[p] # Black}
    IN  \A p \in open : Flood(open, {p}) = open

\* C20: every write of a Black cell during an attempt is refused when it
\* would split the non-Black cells into two or more components: no step of
\* generate() turns a grid whose non-Black cells are one region into one
\* where they are not.
C20_BlackWritesKeepRegion ==
    [][(pc' # "idle" /\ grid' # grid /\ OneRegion(grid)) => OneRegion(grid')]_vars

\* what _place_first_word leaves in a fresh instance of size n with Lexicon
\* ws when the random generator hands it v1 and then v2
SeedOutcome(n, ws, v1, v2) ==
    LET fits(w) == 2 <= Len(w.text) /\ Len(w.text) <= Min(n - 2, 8)
        w == Choice(SelectSeq(ws, fits), v1)
    IN  place_word(ws, GenState(EmptyGrid(n), NoNumbers(n), <<>>, {}), n, w.text,
                   n \div 2, (n - Len(w.text)) \div 2, TRUE, Choice(w.definitions, v2)).st

OwnDrawsDecide ==
    \A a \in DOMAIN run :
       run[a].pc = "seeded" =>
          run[a].st = SeedOutcome(run[a].size, run[a].words,
                                  run[a].draws[1], run[a].draws[2])

\* a step changes one instance at most
OneInstanceSteps ==
    \A a \in DOMAIN run : \A b \in DOMAIN run :
       (a # b /\ run'[a] # run[a]) => run'[b] = run[b]

Inserted == Len(word_positions') = Len(word_positions) + 1

\* on grid g, every run of at least two letters that crosses a letter cell of
\* the span of Placement w at right angles is the text of a Lexicon entry
CrossingsAreWords(g, w) ==
    \A i \in 0..(Len(w.word) - 1) :
       LET p == SpanCell(w.row, w.col, w.is_horizontal, i)
           a == IF w.is_horizontal THEN RunStartRow(g, p[1], p[2])
                                   ELSE RunStartCol(g, p[1], p[2])
           crossing == IF w.is_horizontal
                  THEN CollectDown(g, size, a, p[1], p[2], g[p])
                  ELSE CollectRight(g, size, a, p[1], p[2], g[p])
       IN  (IsLetter(g[p]) /\ Len(crossing) >= 2) => InWords(words, crossing)

\* C21: after every successful insertion of a word, every perpendicular run
\* of length >= 2 that passes through a cell of the inserted word is the text
\* of a Lexicon entry (a cell blackened as a remedy included: it is not left
\* holding a letter of a non-Lexicon run).
C21_CrossingsValid ==
    [][Inserted => CrossingsAreWords(grid', word_positions'[Len(word_positions')])]_vars

\* C22: the growth loop exits exactly when 150 consecutive insertion attempts
\* have failed or, after an attempt, the number of placements is at least
\* min(20, floor(|Lexicon| / 2)); a successful insertion resets the
\* consecutive-failure counter to 0 and a failed attempt increases it by 1.
C22_GrowthLoop ==
    [][pc = "grow" =>
          /\ attempts' = IF Inserted THEN 0 ELSE attempts + 1
          /\ (pc' # "grow") <=> \/ attempts' = 150
                                \/ Len(word_positions') >= Min(20, Len(words) \div 2)]_vars

\* the loop was left after 150 failures that followed a successful insertion
C22_Witness ==
    pc # "grow" /\ attempts = 150 /\ Len(word_positions) >= 2

\* what seeding leaves: one horizontal Placement in the middle row, centred,
\* its letters on its span, its anchor numbered 1, a Black cell on each side
SeedPlaced ==
    /\ Len(word_positions) = 1
    /\ LET w == word_positions[1]
           L == Len(w.word)
       IN  /\ w.is_horizontal
           /\ 2 <= L /\ L <= Min(size - 2, 8)
           /\ w.row = size \div 2
           /\ w.col = (size - L) \div 2
           /\ 1 <= w.col /\ w.col + L <= size - 1
           /\ \A i \in 1..L : grid[<<w.row, w.col + i - 1>>] = w.word[i]
           /\ number[<<w.row, w.col>>] = 1
           /\ grid[<<w.row, w.col - 1>>] = Black
           /\ grid[<<w.row, w.col + L>>] = Black

\* C23: when seeding succeeds, exactly one Placement exists: a horizontal
\* word of length L in [2, min(N-2, 8)] anchored at row floor(N/2) and column
\* floor((N-L)/2), its letters written on that span inside the grid, its
\* anchor numbered 1, with a Black cell immediately to its left and right.
C23_Seeding == [][(pc = "seed" /\ pc' = "grow") => SeedPlaced']_vars

\* seeding has just placed a word of the greatest length allowed, N - 2
C23_Witness ==
    /\ pc = "grow" /\ attempts = 0 /\ Len(word_positions) = 1
    /\ Len(word_positions[1].word) = size - 2

\* the conditions under which a word t may be laid from anchor (row, col) on
\* grid g: the span fits; every span cell is Blank or holds the same letter;
\* the cell before the anchor is Black or off the grid; the cell after the
\* end is Blank, Black or off the grid; no cell beside the span is Black
PlacementLegal(g, t, row, col, is_horizontal) ==
    LET dr == IF is_horizontal THEN 0 ELSE 1
        dc == IF is_horizontal THEN 1 ELSE 0
        L == Len(t)
        at(r, c) == IF r \in 0..(size - 1) /\ c \in 0..(size - 1)
                    THEN g[<<r, c>>] ELSE "off"
    IN  /\ row >= 0 /\ col >= 0
        /\ row + dr * (L - 1) <= size - 1 /\ col + dc * (L - 1) <= size - 1
        /\ \A i \in 0..(L - 1) : at(row + dr * i, col + dc * i) \in {Blank, t[i + 1]}
        /\ at(row - dr, col - dc) \in {Black, "off"}
        /\ at(row + dr * L, col + dc * L) \in {Blank, Black, "off"}
        /\ \A i \in 0..(L - 1) :
              /\ at(row + dr * i + dc, col + dc * i + dr) # Black
              /\ at(row + dr * i - dc, col + dc * i - dr) # Black

\* the anchor from which word t crosses candidate cell p with its first
\* occurrence of the letter of p
AnchorAt(t, p, is_horizontal) ==
    IF is_horizontal THEN <<p[1], p[2] - IndexOf(t, grid[p])>>
                     ELSE <<p[1] - IndexOf(t, grid[p]), p[2]>>

\* the candidate cells and the words holding their letter
Candidates ==
    {y \in find_intersections(grid, size) \X (1..Len(words)) :
        \E i \in 1..Len(words[y[2]].text) : words[y[2]].text[i] = grid[y[1][1]]}

\* C24: during growth, _can_place_word accepts a word at the anchor implied
\* by the candidate cell exactly when the span fits inside the grid, every
\* span cell is Blank or already holds the same letter, the cell before the
\* anchor is Black or off-grid, the cell after the word's end is Blank, Black
\* or off-grid, and no cell beside a span cell in the perpendicular direction
\* is Black.
C24_Legality ==
    pc = "grow" =>
       \A y \in Candidates :
          LET x == y[1]
              t == words[y[2]].text
              a == AnchorAt(t, x[1], x[2])
          IN  can_place_word(grid, size, t, x[1][1], x[1][2], x[2], grid[x[1]])
                 <=> PlacementLegal(grid, t, a[1], a[2], x[2])

\* a growth state in which one candidate is accepted at an anchor that lies
\* below or right of a Black cell, and another is refused
C24_Witness ==
    /\ pc = "grow"
    /\ \E y \in Candidates :
          LET x == y[1]
              t == words[y[2]].text
              a == AnchorAt(t, x[1], x[2])
          IN  /\ can_place_word(grid, size, t, x[1][1], x[1][2], x[2], grid[x[1]])
              /\ IF x[2] THEN a[2] > 0 ELSE a[1] > 0
    /\ \E y \in Candidates :
          ~can_place_word(grid, size, words[y[2]].text, y[1][1][1], y[1][1][2],
                          y[1][2], grid[y[1][1]])

\* the cell the fill phase is looking at
FillTarget == <<fill_pos \div size, fill_pos % size>>

\* grid g with cell p made Black has three Black cells in a row through p
TripleThrough(g, p) ==
    LET b == [g EXCEPT ![p] = Black]
    IN  \E a \in 0..(size - 3) :
           \/ p[2] \in a..(a + 2) /\ \A c \in a..(a + 2) : b[<<p[1], c>>] = Black
           \/ p[1] \in a..(a + 2) /\ \A r \in a..(a + 2) : b[<<r, p[2]>>] = Black

\* the step inserts a 2-letter word, unused so far, starting at cell p
ShortWordInsertedAt(p) ==
    /\ Inserted
    /\ LET w == word_positions'[Len(word_positions')]
       IN  /\ Len(w.word) = 2
           /\ <<w.row, w.col>> = p
           /\ w.word \notin used_words
           /\ \A i \in 0..1 : grid'[SpanCell(w.row, w.col, w.is_horizontal, i)] = w.word[i + 1]

\* C25: the fill phase resolves each cell that is Blank at its turn into
\* exactly one of three outcomes: a 2-letter unused word is inserted starting
\* there, or the cell becomes Black, or the cell stays Blank; and it stays
\* Blank only if blackening it would have created three consecutive Black
\* cells in its row or column.
C25_FillOutcomes ==
    [][(pc = "fill" /\ grid[FillTarget] = Blank) =>
          /\ \/ ShortWordInsertedAt(FillTarget)
             \/ ~Inserted /\ grid'[FillTarget] = Black
             \/ ~Inserted /\ grid'[FillTarget] = Blank
          /\ (~Inserted /\ grid'[FillTarget] = Blank) => TripleThrough(grid, FillTarget)]_vars

\* the cell and direction with which the next step calls
\* _try_place_short_word first, if it does
ShortWordCalls ==
    IF pc = "fill" /\ grid[FillTarget] = Blank
    THEN {<<FillTarget[1], FillTarget[2], TRUE>>}
    ELSE IF pc = "fix" /\ TripleAt(grid, fix_pos \div (size - 2), fix_pos % (size - 2), TRUE)
         THEN {<<fix_pos \div (size - 2), (fix_pos % (size - 2)) + 1, TRUE>>}
         ELSE {}

\* C26: _try_place_short_word returns True only if a 2-letter word was
\* actually inserted: on a True result the Placement list is one entry longer
\* and the word's letters are on the grid; on a False result grid and
\* Placement list are unchanged.
C26_ShortWordResult ==
    \A y \in ShortWordCalls :
       LET k == ShortWordFor(words, Cur, size, y[1], y[2], y[3])
       IN  \A d \in DrawsFor(words, k) :
              LET r == try_place_short_word(words, Cur, size, y[1], y[2], y[3], k, d)
              IN  IF r.found
                  THEN /\ Len(r.st.word_positions) = Len(word_positions) + 1
                       /\ \A i \in 0..1 :
                             r.st.grid[SpanCell(y[1], y[2], y[3], i)] = words[k].text[i + 1]
                  ELSE r.st.grid = grid /\ r.st.word_positions = word_positions

\* C27: the Black cells that _add_black_cells_around_word writes before and
\* after a placed word never create three consecutive Black cells: if the
\* grid has no triple-black run in any row or column before a word insertion,
\* it has none after it.
C27_BordersMakeNoTriple == [][(Inserted /\ NoThreeBlack) => NoThreeBlack']_vars

\* the cells along the span of every recorded Placement hold its letters
SpansIntact ==
    \A k \in 1..Len(word_positions) :
       LET w == word_positions[k]
       IN  \A i \in 0..(Len(w.word) - 1) :
              grid[SpanCell(w.row, w.col, w.is_horizontal, i)] = w.word[i + 1]

\* C28: in every state reached during an attempt, and on every Accepted
\* grid, the cells along the span of each recorded Placement hold exactly the
\* letters of its word: no committed letter is later overwritten by a Black
\* cell or by a different letter.
C28_SpansIntact == pc # "idle" => SpansIntact

\* the calls of _place_word the next step can make first: <<k, row, col,
\* is_horizontal>> with k the index of the word in words
PlaceWordCalls ==
    IF pc = "grow"
    THEN {<<y[2], AnchorAt(words[y[2]].text, y[1][1], y[1][2])[1],
            AnchorAt(words[y[2]].text, y[1][1], y[1][2])[2], y[1][2]>> :
             y \in {z \in Candidates :
                       /\ words[z[2]].text \notin used_words
                       /\ can_place_word(grid, size, words[z[2]].text, z[1][1][1],
                                         z[1][1][2], z[1][2], grid[z[1][1]])}}
    ELSE {<<ShortWordFor(words, Cur, size, y[1], y[2], y[3]), y[1], y[2], y[3]>> :
             y \in {z \in ShortWordCalls :
                       ShortWordFor(words, Cur, size, z[1], z[2], z[3]) # 0}}

\* a call of _place_word that returns False leaves the generator as it was
RejectedLeavesState ==
    \A c \in PlaceWordCalls :
       \A d \in Definitions(words[c[1]]) :
          LET r == place_word(words, Cur, size, words[c[1]].text, c[2], c[3], c[4], d)
          IN  ~r.ok => r.st = Cur

\* a growth attempt that inserts nothing leaves the generator as it was
FailedAttemptLeavesState ==
    (pc = "grow" /\ ~Inserted) => UNCHANGED <<grid, number, word_positions, used_words>>

\* C29: a rejected insertion is atomic: when _place_word returns False, and
\* when a growth attempt (_add_word) returns False, the grid, the Placement
\* list, the used-word set and all clue numbers are exactly as before the
\* call.
C29_RejectionAtomic == [](RejectedLeavesState) /\ [][FailedAttemptLeavesState]_vars

\* a growth attempt has just failed on a candidate whose _place_word call
\* returned False
C29_Witness ==
    /\ pc = "grow" /\ attempts >= 1
    /\ \E c \in PlaceWordCalls :
          ~place_word(words, Cur, size, words[c[1]].text, c[2], c[3], c[4],
                      words[c[1]].definitions[1]).ok

\* C30: for any N and any Lexicon with fewer than 8 valid entries, generate()
\* returns False: the growth loop stops as soon as floor(|Lexicon| / 2) words
\* are placed, which is below the 4 placements required for acceptance, so
\* fill, repair and validation are never run.
C30_SmallLexiconRejected ==
    /\ [](Len(words) < 8 =>
             /\ Len(word_positions) < 4
             /\ pc \notin {"fill", "fix", "validate"}
             /\ pc \in {"done", "idle"} => result = FALSE)
    /\ [][(Len(words) < 8 /\ pc = "grow" /\ Len(word_positions') >= Len(words) \div 2)
             => pc' = "done"]_vars

\* a Lexicon of 6 or 7 entries: the loop has stopped with 3 words placed
C30_Witness ==
    /\ Len(words) \in {6, 7}
    /\ pc = "done" /\ attempts = 0
    /\ Len(word_positions) = 3

\* the maximal run through cell p, down the column or along the row, as grid
\* g reads once `letter` is written at p
RunAfterWriting(g, p, letter, vertical) ==
    LET h == [g EXCEPT ![p] = letter]
    IN  IF vertical
        THEN CollectDown(h, size, RunStartRow(h, p[1], p[2]), p[1], p[2], letter)
        ELSE CollectRight(h, size, RunStartCol(h, p[1], p[2]), p[1], p[2], letter)

\* a cell above or below p (left or right of p when not vertical) holds a
\* letter
LetterBeside(p, vertical) ==
    \E q \in Cells(size) :
       /\ IsLetter(grid[q])
       /\ IF vertical THEN q[2] = p[2] /\ (q[1] = p[1] + 1 \/ p[1] = q[1] + 1)
                      ELSE q[1] = p[1] /\ (q[2] = p[2] + 1 \/ p[2] = q[2] + 1)

\* the calls of _get_vertical_word and _get_horizontal_word that crossing
\* verification makes for the next _place_word calls: <<cell, letter,
\* vertical>>, one for every span cell with a letter beside it
RunCalls ==
    UNION {{<<SpanCell(c[2], c[3], c[4], i), words[c[1]].text[i + 1], c[4]>> :
               i \in {j \in 0..(Len(words[c[1]].text) - 1) :
                         LetterBeside(SpanCell(c[2], c[3], c[4], j), c[4])}} :
           c \in PlaceWordCalls}

\* C31: _get_vertical_word(row, col, letter) and _get_horizontal_word(row,
\* col, letter) return the full maximal perpendicular run through (row, col)
\* as it would read after writing letter at (row, col), including the letters
\* on both sides of that cell, whether the cell is currently Blank or already
\* holds a letter.
C31_FullRun ==
    \A y \in RunCalls :
       (IF y[3] THEN get_vertical_word(grid, size, y[1][1], y[1][2], y[2])
                ELSE get_horizontal_word(grid, size, y[1][1], y[1][2], y[2]))
          = RunAfterWriting(grid, y[1], y[2], y[3])

\* the cells for which the next _place_word calls reach _can_add_black_cell:
\* the first offending span cell, when it is off the border and blackening
\* it creates no triple
BlackCellCalls ==
    {p \in Cells(size) :
        /\ p[1] > 0 /\ p[1] < size - 1 /\ p[2] > 0 /\ p[2] < size - 1
        /\ ~would_create_triple_black(grid, size, p[1], p[2])
        /\ \E c \in PlaceWordCalls :
              LET bad == OffendingCells(words, grid, size, words[c[1]].text,
                                        c[2], c[3], c[4])
              IN  /\ bad # {}
                  /\ p = SpanCell(c[2], c[3], c[4],
                                  CHOOSE k \in bad : \A m \in bad : k <= m)}

\* with cell p Black, a flood-fill from a non-Black cell of grid g reaches
\* every non-Black cell, Blank cells included
NonBlackStayConnected(g, p) ==
    LET open == {q \in Cells(size) : q # p /\ g[q] # Black}
    IN  open = {} \/
        Cardinality(Flood(open, {FirstCell(open, size)})) = Cardinality(open)

\* C32: _can_add_black_cell(row, col) leaves the grid unchanged and returns
\* True exactly when, with (row, col) tentatively Black, a flood-fill from a
\* non-Black cell reaches every non-Black cell of the grid (Blank cells
\* included), i.e. the reachable count equals the total non-Black count.
C32_FloodOverNonBlack ==
    \A p \in BlackCellCalls :
       can_add_black_cell(grid, size, p[1], p[2]) <=> NonBlackStayConnected(grid, p)

\* --------------------------------------------------------- index accesses
\* For each method, the <<row, col>> pairs with which it may subscript the
\* grid (self.grid[row][col], or a copy of it), under the guards the code
\* puts before each subscript; a pair outside Cells(n) would be an access
\* out of [0, N).

\* _would_create_triple_black
Idx_would_create_triple_black(n, row, col) ==
    (IF col > 0 /\ col < n - 1 THEN {<<row, col - 1>>, <<row, col + 1>>} ELSE {})
    \cup (IF col > 1 THEN {<<row, col - 2>>, <<row, col - 1>>} ELSE {})
    \cup (IF col < n - 2 THEN {<<row, col + 1>>, <<row, col + 2>>} ELSE {})
    \cup (IF row > 0 /\ row < n - 1 THEN {<<row - 1, col>>, <<row + 1, col>>} ELSE {})
    \cup (IF row > 1 THEN {<<row - 2, col>>, <<row - 1, col>>} ELSE {})
    \cup (IF row < n - 2 THEN {<<row + 1, col>>, <<row + 2, col>>} ELSE {})

\* _can_add_black_cell: the copy reads every cell, temp_grid[row][col] is
\* written, and dfs returns before subscripting when r or c is off the grid
Idx_can_add_black_cell(n, row, col) == Cells(n) \cup {<<row, col>>}

\* _try_add_black_cell
Idx_try_add_black_cell(g, n, row, col) ==
    IF row > 0 /\ row < n - 1 /\ col > 0 /\ col < n - 1
    THEN Idx_would_create_triple_black(n, row, col)
         \cup (IF would_create_triple_black(g, n, row, col) THEN {}
               ELSE Idx_can_add_black_cell(n, row, col) \cup {<<row, col>>})
    ELSE {}

\* _get_vertical_word (vertical) and _get_horizontal_word: the loop that
\* looks for the start reads the cell before each position it visits while
\* that position is > 0; the collecting loop reads from the start up to the
\* first cell without a letter, while the position is < size
Idx_get_run(g, n, row, col, letter, vertical) ==
    IF vertical
    THEN LET start == RunStartRow(g, row, col)
             last == start + Len(get_vertical_word(g, n, row, col, letter))
         IN  {<<s - 1, col>> : s \in {u \in start..row : u > 0}}
             \cup {<<r, col>> : r \in {u \in start..last : u < n}}
    ELSE LET start == RunStartCol(g, row, col)
             last == start + Len(get_horizontal_word(g, n, row, col, letter))
         IN  {<<row, s - 1>> : s \in {u \in start..col : u > 0}}
             \cup {<<row, c>> : c \in {u \in start..last : u < n}}

\* _get_word_at_position on the grid copy g
Idx_get_word_at_position(g, n, row, col, is_horizontal) ==
    IF is_horizontal
    THEN LET start == RunStartCol(g, row, col)
             last == start + Len(get_word_at_position(g, n, row, col, TRUE))
         IN  {<<row, s - 1>> : s \in {u \in start..col : u > 0}}
             \cup {<<row, c>> : c \in {u \in start..last : u < n}}
    ELSE LET start == RunStartRow(g, row, col)
             last == start + Len(get_word_at_position(g, n, row, col, FALSE))
         IN  {<<s - 1, col>> : s \in {u \in start..row : u > 0}}
             \cup {<<r, col>> : r \in {u \in start..last : u < n}}

\* the cells of the span of a word of length len anchored at (row, col)
Span(row, col, len, is_horizontal) ==
    {SpanCell(row, col, is_horizontal, i) : i \in 0..(len - 1)}

\* _check_adjacent_words, for a span inside the grid: up to the first
\* offending cell, the two neighbours of each span cell, the run
\* reconstruction where a neighbour holds a letter, and the remedy
Idx_check_adjacent_words(ws, g, n, t, row, col, is_horizontal) ==
    IF ~InWords(ws, t) THEN {}
    ELSE LET bad == OffendingCells(ws, g, n, t, row, col, is_horizontal)
             stop == IF bad = {} THEN Len(t) - 1
                     ELSE CHOOSE k \in bad : \A m \in bad : k <= m
         IN  UNION {LET p == SpanCell(row, col, is_horizontal, i)
                        r == p[1]
                        c == p[2]
                        beside ==
                           IF is_horizontal
                           THEN (IF r > 0 THEN {<<r - 1, c>>} ELSE {})
                                \cup (IF r < n - 1 THEN {<<r + 1, c>>} ELSE {})
                           ELSE (IF c > 0 THEN {<<r, c - 1>>} ELSE {})
                                \cup (IF c < n - 1 THEN {<<r, c + 1>>} ELSE {})
                    IN  beside
                        \cup (IF \E q \in beside : IsLetter(g[q])
                              THEN Idx_get_run(g, n, r, c, t[i + 1], is_horizontal)
                              ELSE {})
                        \cup (IF i \in bad THEN Idx_try_add_black_cell(g, n, r, c)
                              ELSE {}) :
                    i \in 0..stop}

\* mutant of Idx_add_black_cells_around_word: the cell two before the word is
\* read whenever the cell before it exists
Idx_add_black_cells_around_word_unguarded(n, row, col, word_length, is_horizontal) ==
    IF is_horizontal
    THEN (IF col > 0 THEN {<<row, col - 2>>, <<row, col - 1>>} ELSE {})
         \cup (IF col + word_length < n
               THEN (IF col + word_length < n - 1
                     THEN {<<row, col + word_length + 1>>} ELSE {})
                    \cup {<<row, col + word_length>>}
               ELSE {})
    ELSE (IF row > 0 THEN {<<row - 2, col>>, <<row - 1, col>>} ELSE {})
         \cup (IF row + word_length < n
               THEN (IF row + word_length < n - 1
                     THEN {<<row + word_length + 1, col>>} ELSE {})
                    \cup {<<row + word_length, col>>}
               ELSE {})

\* _add_black_cells_around_word
Idx_add_black_cells_around_word(n, row, col, word_length, is_horizontal) ==
    IF is_horizontal
    THEN (IF col > 0
          THEN (IF col > 1 THEN {<<row, col - 2>>} ELSE {}) \cup {<<row, col - 1>>}
          ELSE {})
         \cup (IF col + word_length < n
               THEN (IF col + word_length < n - 1
                     THEN {<<row, col + word_length + 1>>} ELSE {})
                    \cup {<<row, col + word_length>>}
               ELSE {})
    ELSE (IF row > 0
          THEN (IF row > 1 THEN {<<row - 2, col>>} ELSE {}) \cup {<<row - 1, col>>}
          ELSE {})
         \cup (IF row + word_length < n
               THEN (IF row + word_length < n - 1
                     THEN {<<row + word_length + 1, col>>} ELSE {})
                    \cup {<<row + word_length, col>>}
               ELSE {})

\* _place_word: crossing verification, then the anchor's number and flags,
\* the letters of the span and the border cells (a span that leaves the grid
\* is reported as it is)
Idx_place_word(ws, st, n, t, row, col, is_horizontal) ==
    LET span == Span(row, col, Len(t), is_horizontal)
    IN  IF ~(span \subseteq Cells(n)) THEN span
        ELSE Idx_check_adjacent_words(ws, st.grid, n, t, row, col, is_horizontal)
             \cup (IF check_adjacent_words(ws, st.grid, n, t, row, col, is_horizontal).ok
                   THEN {<<row, col>>} \cup span
                        \cup Idx_add_black_cells_around_word(n, row, col, Len(t),
                                                             is_horizontal)
                   ELSE {})

\* _can_place_word: nothing is subscripted once _is_valid_position fails
Idx_can_place_word(n, t, row, col, is_horizontal, letter) ==
    LET offset == IndexOf(t, letter)
        new_row == IF is_horizontal THEN row ELSE row - offset
        new_col == IF is_horizontal THEN col - offset ELSE col
        len == Len(t)
    IN  IF ~is_valid_position(n, new_row, new_col, t, is_horizontal) THEN {}
        ELSE Span(new_row, new_col, len, is_horizontal) \cup
             (IF is_horizontal
              THEN (IF new_col > 0 THEN {<<new_row, new_col - 1>>} ELSE {})
                   \cup (IF new_col + len < n THEN {<<new_row, new_col + len>>} ELSE {})
                   \cup (IF new_row > 0
                         THEN {<<new_row - 1, new_col + i>> : i \in 0..(len - 1)} ELSE {})
                   \cup (IF new_row < n - 1
                         THEN {<<new_row + 1, new_col + i>> : i \in 0..(len - 1)} ELSE {})
              ELSE (IF new_row > 0 THEN {<<new_row - 1, new_col>>} ELSE {})
                   \cup (IF new_row + len < n THEN {<<new_row + len, new_col>>} ELSE {})
                   \cup (IF new_col > 0
                         THEN {<<new_row + i, new_col - 1>> : i \in 0..(len - 1)} ELSE {})
                   \cup (IF new_col < n - 1
                         THEN {<<new_row + i, new_col + 1>> : i \in 0..(len - 1)} ELSE {}))

\* _find_intersections with _can_start_vertical_word and
\* _can_start_horizontal_word for every letter cell
Idx_find_intersections(g, n) ==
    Cells(n) \cup
    UNION {(IF p[1] # 0 THEN {<<p[1] - 1, p[2]>>} ELSE {})
           \cup (IF p[1] < n - 1 THEN {<<p[1] + 1, p[2]>>} ELSE {})
           \cup (IF p[2] # 0 THEN {<<p[1], p[2] - 1>>} ELSE {})
           \cup (IF p[2] < n - 1 THEN {<<p[1], p[2] + 1>>} ELSE {}) :
           p \in {q \in Cells(n) : IsLetter(g[q])}}

\* _can_place_word_without_conflict: nothing is subscripted once
\* _is_valid_position fails; else each span cell, the copy of the grid, and
\* the two runs through the cell on the copy
Idx_can_place_word_without_conflict(g, n, t, row, col, is_horizontal) ==
    IF ~is_valid_position(n, row, col, t, is_horizontal) THEN {}
    ELSE Cells(n) \cup
         UNION {LET p == SpanCell(row, col, is_horizontal, i)
                    test_grid == [g EXCEPT ![p] = t[i + 1]]
                IN  {p} \cup Idx_get_word_at_position(test_grid, n, p[1], p[2], FALSE)
                        \cup Idx_get_word_at_position(test_grid, n, p[1], p[2], TRUE) :
                i \in 0..(Len(t) - 1)}

\* _try_place_short_word: the test of every unused 2-letter word and the
\* insertion of the first that passes
Idx_try_place_short_word(ws, st, n, row, col, is_horizontal) ==
    LET k == ShortWordFor(ws, st, n, row, col, is_horizontal)
    IN  UNION {Idx_can_place_word_without_conflict(st.grid, n, ws[m].text, row, col,
                                                   is_horizontal) :
               m \in {j \in 1..Len(ws) : Len(ws[j].text) = 2
                                         /\ ws[j].text \notin st.used_words}}
        \cup (IF k = 0 THEN {}
              ELSE Idx_place_word(ws, st, n, ws[k].text, row, col, is_horizontal))

\* the subscripts of _place_first_word: one _place_word call, for whichever
\* suitable word is drawn
Idx_seed ==
    UNION {Idx_place_word(words, Cur, size, words[k].text, size \div 2,
                          (size - Len(words[k].text)) \div 2, TRUE) :
           k \in suitable_words}

\* the subscripts of one _add_word call
Idx_grow ==
    Idx_find_intersections(grid, size)
    \cup UNION {Idx_can_place_word(size, words[y[2]].text, y[1][1][1], y[1][1][2],
                                   y[1][2], grid[y[1][1]]) :
                y \in {z \in Candidates : words[z[2]].text \notin used_words}}
    \cup UNION {Idx_place_word(words, Cur, size, words[c[1]].text, c[2], c[3], c[4]) :
                c \in PlaceWordCalls}

\* the subscripts of one iteration of _fill_empty_spaces
Idx_fill ==
    LET row == FillTarget[1]
        col == FillTarget[2]
    IN  {FillTarget}
        \cup (IF grid[FillTarget] # Blank THEN {}
              ELSE Idx_try_place_short_word(words, Cur, size, row, col, TRUE)
                   \cup (IF ShortWordFor(words, Cur, size, row, col, TRUE) # 0 THEN {}
                         ELSE Idx_would_create_triple_black(size, row, col)
                              \cup {FillTarget}))

\* the subscripts of one iteration of the inner loops of
\* _fix_triple_black_cells
Idx_fix ==
    LET i == fix_pos \div (size - 2)
        j == fix_pos % (size - 2)
        kh == IF TripleAt(grid, i, j, TRUE)
              THEN ShortWordFor(words, Cur, size, i, j + 1, TRUE) ELSE 0
        st1 == try_place_short_word(words, Cur, size, i, j + 1, TRUE, kh,
                                    CHOOSE d \in DrawsFor(words, kh) : TRUE).st
    IN  {<<i, j>>, <<i, j + 1>>, <<i, j + 2>>, <<j, i>>, <<j + 1, i>>, <<j + 2, i>>}
        \cup (IF TripleAt(grid, i, j, TRUE)
              THEN Idx_try_place_short_word(words, Cur, size, i, j + 1, TRUE) ELSE {})
        \cup (IF TripleAt(st1.grid, i, j, FALSE)
              THEN Idx_try_place_short_word(words, st1, size, j + 1, i, FALSE) ELSE {})

\* the subscripts of _validate_grid and _check_all_letter_sequences
Idx_validate ==
    Cells(size)
    \cup UNION {{<<i, j + d>>, <<j + d, i>>} :
                <<i, j, d>> \in (0..(size - 1)) \X (0..(size - 3)) \X (0..2)}

\* the subscripts of the step generate() takes next
Idx_step ==
    CASE pc = "seed" -> Idx_seed
      [] pc = "grow" -> Idx_grow
      [] pc = "fill" -> Idx_fill
      [] pc = "fix" -> Idx_fix
      [] pc = "validate" -> Idx_validate
      [] OTHER -> {}

\* C33: during any generation attempt every read or write of a grid cell
\* uses a row and a column in [0, N): no phase (seeding, growth, fill,
\* repair, validation) accesses an index that is negative or >= N.
C33_IndicesInRange == Idx_step \subseteq Cells(size)

\* the fill phase is at a Blank cell of the last column and tries a short
\* word or a Black cell there
C33_Witness ==
    /\ pc = "fill" /\ grid[FillTarget] = Blank /\ FillTarget[2] = size - 1
    /\ Idx_would_create_triple_black(size, FillTarget[1], FillTarget[2]) \subseteq Idx_step

====
